---- MODULE Spec2Model ----
(***************************************************************************)
(* Model of app/services/uniswap_v3/service.py: the UniSwap V3 observation *)
(* services (UniSwapV3WSSService, UniSwapV3HTTPService), their amount      *)
(* scaling helpers and the observe() generator, together with the parts of *)
(* the repository layer the service reads: the pool metadata, the log      *)
(* filter `_blocks` and the node behind `_w3`.                             *)
(***************************************************************************)
EXTENDS Integers, Sequences, FiniteSets, TLC

(* ------------------------------ bounds -------------------------------- *)

\* Swap logs the pool emits during a run.
MaxEvents == 2
\* observe() calls made during a run (each call creates one generator).
MaxCalls == 2
\* Magnitude of the raw legs handed directly to _amount0 / _amount1.
MaxRaw == 3
\* Largest token decimals handed directly to _amount0 / _amount1.
MaxDecimals == 2

(* --------------------------- classes, instances ------------------------ *)

Repositories == {"UniSwapV3WSSRepository", "UniSwapV3HTTPRepository"}

\* Service objects of the run: a and b are two UniSwapV3WSSService objects,
\* h is a UniSwapV3HTTPService object.
Instances == {"a", "b", "h"}

ClassOf(i) == IF i = "h" THEN "UniSwapV3HTTPService" ELSE "UniSwapV3WSSService"

\* A subclass that forgets to override _repository.
RepositoryOf_inherited(i) == "UniSwapV3WSSRepository"

\* self._repository: a class attribute that holds the repository CLASS; the
\* HTTP service overrides it, nothing assigns it per instance.
RepositoryOf(i) ==
    IF ClassOf(i) = "UniSwapV3HTTPService"
    THEN "UniSwapV3HTTPRepository"
    ELSE "UniSwapV3WSSRepository"

Chains == {"ethereum", "bsc"}

(* ------------------------------ chain data ----------------------------- *)

\* Block of the k-th swap log of the pool: logs 2 and 3 share a block.
BlockOf(k) == k \div 2 + 1

Blocks == {BlockOf(k) : k \in 1..MaxEvents}

\* The k-th swap log the pool emits (a LogReceipt): every log has its own
\* transaction hash, and recipient, legs and block vary from log to log.
Swap(k) ==
    [args |-> [recipient |-> IF k % 2 = 1 THEN "0xAlice" ELSE "0xBob",
               amount0   |-> IF k % 2 = 1 THEN 25 * k ELSE -(25 * k),
               amount1   |-> IF k % 2 = 1 THEN -(7 * k + 3) ELSE 7 * k + 3],
     transactionHash |-> 37 * k + 90,
     blockNumber |-> BlockOf(k)]

\* get_block(n).timestamp: seconds since the epoch.
BlockTimestamp(n) == 1700000000 + 12 * n

\* Pool metadata a repository class can be configured with.
PoolContexts ==
    {[address |-> "0xPoolWethUsdc", token0_symbol |-> "WETH",
      token1_symbol |-> "USDC", token0_decimals |-> 2, token1_decimals |-> 1],
     [address |-> "0xPoolDaiUsdt", token0_symbol |-> "DAI",
      token1_symbol |-> "USDT", token0_decimals |-> 1, token1_decimals |-> 1]}

\* Pool metadata used when the amount helpers are exercised on their own.
ProbeContexts ==
    {[address |-> "0xPool", token0_symbol |-> "T0", token1_symbol |-> "T1",
      token0_decimals |-> d0, token1_decimals |-> d1] :
        d0 \in 0..MaxDecimals, d1 \in 0..MaxDecimals}

ProbeSwaps ==
    {[args |-> [recipient |-> "0xAlice", amount0 |-> x0, amount1 |-> x1],
      transactionHash |-> 255, blockNumber |-> 1] :
        x0 \in -MaxRaw..MaxRaw, x1 \in -MaxRaw..MaxRaw}

(* -------------------------------- state -------------------------------- *)

VARIABLES
    pool,      \* repository class -> its pool metadata (_contract._address, _token*_symbol, _token*_decimals)
    entries,   \* number of swap logs of the pool that the filters _blocks have matched so far
    cursor,    \* repository class -> number of those logs get_new_entries() has already returned
    gens,      \* generator objects returned by observe(), in creation order
    probe,     \* the swap handed directly to the amount helpers, or NoProbe
    ret        \* results of the direct calls of the amount helpers

vars == <<pool, entries, cursor, gens, probe, ret>>

NoProbe == [self |-> "none"]
None == <<"None">>
NoResults == [a0F |-> None, a0T |-> None, a1F |-> None, a1T |-> None]

(* --------------------------- pure functions ---------------------------- *)

RECURSIVE Pow10(_)
Pow10(d) == IF d = 0 THEN 1 ELSE 10 * Pow10(d - 1)

Abs(n) == IF n < 0 THEN -n ELSE n

RECURSIVE GCD(_, _)
GCD(m, n) == IF n = 0 THEN m ELSE GCD(n, m % n)

\* Python's n / d on two ints (d > 0): true division.  The float it returns
\* is the correctly rounded value of the exact quotient, hence a function of
\* that quotient; the model keeps the exact quotient, as the fraction in
\* lowest terms <<numerator, denominator>>.
TrueDiv(n, d) ==
    LET g == GCD(Abs(n), d) IN <<n \div g, d \div g>>

\* A helper that scales with the other token's decimals.
amount0_wrong_decimals(self, is_reverse, swap) ==
    IF ~is_reverse
    THEN TrueDiv(swap.args.amount0, Pow10(pool[RepositoryOf(self)].token1_decimals))
    ELSE TrueDiv(swap.args.amount1, Pow10(pool[RepositoryOf(self)].token1_decimals))

_amount0(self, is_reverse, swap) ==
    IF ~is_reverse
    THEN TrueDiv(swap.args.amount0, Pow10(pool[RepositoryOf(self)].token0_decimals))
    ELSE TrueDiv(swap.args.amount1, Pow10(pool[RepositoryOf(self)].token0_decimals))

\* A helper that ignores the reverse flag.
amount1_ignores_reverse(self, is_reverse, swap) ==
    TrueDiv(swap.args.amount1, Pow10(pool[RepositoryOf(self)].token1_decimals))

_amount1(self, is_reverse, swap) ==
    IF ~is_reverse
    THEN TrueDiv(swap.args.amount1, Pow10(pool[RepositoryOf(self)].token1_decimals))
    ELSE TrueDiv(swap.args.amount0, Pow10(pool[RepositoryOf(self)].token1_decimals))

HexDigit(n) ==
    <<"0", "1", "2", "3", "4", "5", "6", "7",
      "8", "9", "a", "b", "c", "d", "e", "f">>[n + 1]

\* HexBytes.hex() of a one-byte hash: its two hexadecimal digits.
Hex(n) == <<HexDigit(n \div 16), HexDigit(n % 16)>>

\* str(datetime.datetime.fromtimestamp(int(ts))): the civil date and time of
\* the timestamp, as day number, hour, minute and second (the local zone is
\* taken to be UTC).
DateTimeStr(ts) ==
    [day |-> ts \div 86400, hour |-> (ts % 86400) \div 3600,
     minute |-> (ts % 3600) \div 60, second |-> ts % 60]

(* ------------------------- the log filter, node ------------------------ *)

\* _blocks.get_new_entries(): the logs matched since the previous poll, in
\* the order the filter received them.
get_new_entries(r) == [j \in 1..(entries - cursor[r]) |-> cursor[r] + j]

\* _blocks.get_all_entries(): every log the filter has matched.
get_all_entries(r) == [j \in 1..entries |-> j]

\* _w3.eth.get_block(n) succeeds when the node serves block n during the
\* call, and raises otherwise.
BlockFound(served, n) == n \in served

(* ------------------------------ observe() ------------------------------ *)

\* A body that polls the whole filter history on every pass.
Drained_all(self) == get_all_entries(RepositoryOf(self))

\* A body that loses the first log of every poll.
Drained_tail(self) ==
    LET new == get_new_entries(RepositoryOf(self)) IN
    IF new = <<>> THEN <<>> ELSE Tail(new)

\* The iterable of the list comprehension, evaluated once, before the first
\* element is built.
Drained(self) == get_new_entries(RepositoryOf(self))

\* A tuple whose amounts are computed without the caller's reverse flag.
Row_ignores_reverse(self, is_reverse, blockchain, swap) ==
    <<blockchain,
      pool[RepositoryOf(self)].address,
      swap.args.recipient,
      pool[RepositoryOf(self)].token0_symbol,
      pool[RepositoryOf(self)].token1_symbol,
      _amount0(self, FALSE, swap),
      _amount1(self, FALSE, swap),
      Hex(swap.transactionHash),
      DateTimeStr(BlockTimestamp(swap.blockNumber))>>

\* The tuple built for one swap.
Row(self, is_reverse, blockchain, swap) ==
    <<blockchain,
      pool[RepositoryOf(self)].address,
      swap.args.recipient,
      pool[RepositoryOf(self)].token0_symbol,
      pool[RepositoryOf(self)].token1_symbol,
      _amount0(self, is_reverse, swap),
      _amount1(self, is_reverse, swap),
      Hex(swap.transactionHash),
      DateTimeStr(BlockTimestamp(swap.blockNumber))>>

\* A body that skips the swaps whose block lookup raises.
RECURSIVE Rows_skipping(_, _, _, _, _)
Rows_skipping(self, is_reverse, blockchain, batch, served) ==
    IF batch = <<>> THEN <<>>
    ELSE (IF BlockFound(served, Swap(Head(batch)).blockNumber)
          THEN <<Row(self, is_reverse, blockchain, Swap(Head(batch)))>>
          ELSE <<>>)
         \o Rows_skipping(self, is_reverse, blockchain, Tail(batch), served)

Comprehension_skipping(self, is_reverse, blockchain, batch, served) ==
    [raised |-> FALSE,
     value |-> Rows_skipping(self, is_reverse, blockchain, batch, served)]

\* Outcome of the list comprehension over the drained batch: the exception of
\* a failing block lookup, which leaves no list at all, or the list of the
\* tuples, one per swap, in the order of the batch.
Comprehension(self, is_reverse, blockchain, batch, served) ==
    IF \E j \in DOMAIN batch : ~BlockFound(served, Swap(batch[j]).blockNumber)
    THEN [raised |-> TRUE, value |-> <<>>]
    ELSE [raised |-> FALSE,
          value |-> [j \in DOMAIN batch |->
                        Row(self, is_reverse, blockchain, Swap(batch[j]))]]

\* Number of generators that have been advanced at least once.
Started == Cardinality({g \in DOMAIN gens : gens[g].turn # 0})

\* A generator object.  Besides the generator's own state (the bound
\* arguments, its position pc, the list it yielded) it records when it was
\* created (born: the number of bodies run before the call) and what the run
\* of its body met: turn (its rank among the bodies run so far), seen (the
\* logs the filter had matched by then), batch (the logs the body drained)
\* and lost (the blocks of the batch the node did not serve).
NewGenerator(self, is_reverse, blockchain) ==
    [self |-> self, is_reverse |-> is_reverse, blockchain |-> blockchain,
     pc |-> "created", born |-> Started, turn |-> 0, seen |-> 0,
     batch |-> <<>>, lost |-> {}, value |-> <<>>]

\* The generator after its body has run over the batch it drained.
AfterBody(gen, batch, seen, turn, served) ==
    LET out == Comprehension(gen.self, gen.is_reverse, gen.blockchain,
                             batch, served) IN
    [gen EXCEPT !.pc = IF out.raised THEN "raised" ELSE "suspended",
                !.turn = turn, !.seen = seen, !.batch = batch,
                !.lost = {Swap(batch[j]).blockNumber : j \in DOMAIN batch} \ served,
                !.value = out.value]

\* An observe() that builds its list when it is called.
observe_eager(self, is_reverse, blockchain) ==
    /\ Len(gens) < MaxCalls
    /\ \E served \in SUBSET Blocks :
         gens' = Append(gens,
                    AfterBody(NewGenerator(self, is_reverse, blockchain),
                              Drained(self), entries, Started + 1, served))
    /\ cursor' = [cursor EXCEPT ![RepositoryOf(self)] = entries]
    /\ UNCHANGED <<pool, entries, probe, ret>>

\* service.observe(is_reverse, blockchain): a generator function, so the call
\* only creates the generator object; nothing of the body runs.
observe(self, is_reverse, blockchain) ==
    /\ Len(gens) < MaxCalls
    /\ gens' = Append(gens, NewGenerator(self, is_reverse, blockchain))
    /\ UNCHANGED <<pool, entries, cursor, probe, ret>>

\* First next() on generator g: the body runs up to its yield.  The filter is
\* drained, then one tuple is built per drained swap; a failing block lookup
\* ends the generator with that exception.  served: the blocks the node
\* serves while the body runs.
RunBody(g, served) ==
    /\ g \in DOMAIN gens
    /\ gens[g].pc = "created"
    /\ gens' = [gens EXCEPT ![g] =
                   AfterBody(gens[g], Drained(gens[g].self), entries,
                             Started + 1, served)]
    /\ cursor' = [cursor EXCEPT ![RepositoryOf(gens[g].self)] = entries]
    /\ UNCHANGED <<pool, entries, probe, ret>>

\* A later next() on a generator suspended at its yield: the body ends and
\* the generator is exhausted (StopIteration).
Resume(g) ==
    /\ g \in DOMAIN gens
    /\ gens[g].pc = "suspended"
    /\ gens' = [gens EXCEPT ![g].pc = "exhausted"]
    /\ UNCHANGED <<pool, entries, cursor, probe, ret>>

(* ------------------------------ environment ---------------------------- *)

\* The pool emits its next swap log; the filter of each repository matches it.
LogArrives ==
    /\ entries < MaxEvents
    /\ entries' = entries + 1
    /\ UNCHANGED <<pool, cursor, gens, probe, ret>>

(* ---------------------------- specifications --------------------------- *)

WethUsdc == CHOOSE c \in PoolContexts : c.token0_decimals # c.token1_decimals

InitServices ==
    /\ entries = 0
    /\ cursor = [r \in Repositories |-> 0]
    /\ gens = <<>>
    /\ probe = NoProbe
    /\ ret = NoResults

\* Both repository classes are configured for the same pool.
Init ==
    /\ \E c \in PoolContexts : pool = [r \in Repositories |-> c]
    /\ InitServices

\* Two UniSwapV3WSSService objects, a and b, observe the pool.
Next ==
    \/ \E i \in {"a", "b"}, rev \in BOOLEAN : observe(i, rev, "ethereum")
    \/ \E g \in 1..MaxCalls, served \in SUBSET Blocks : RunBody(g, served)
    \/ \E g \in 1..MaxCalls : Resume(g)
    \/ LogArrives

Spec == Init /\ [][Next]_vars

\* The HTTP repository is configured for the same pool as the WebSocket one,
\* or for another pool.
InitVariants ==
    /\ pool \in [Repositories -> PoolContexts]
    /\ pool["UniSwapV3WSSRepository"] = WethUsdc
    /\ InitServices

\* A UniSwapV3WSSService object, a, and a UniSwapV3HTTPService object, h,
\* observe the pool.
NextVariants ==
    \/ \E i \in {"a", "h"}, rev \in BOOLEAN : observe(i, rev, "ethereum")
    \/ \E g \in 1..MaxCalls, served \in SUBSET Blocks : RunBody(g, served)
    \/ \E g \in 1..MaxCalls : Resume(g)
    \/ LogArrives

SpecVariants == InitVariants /\ [][NextVariants]_vars

\* One service object, called with any reverse flag and any chain name.
NextCaller ==
    \/ \E rev \in BOOLEAN, chain \in Chains : observe("a", rev, chain)
    \/ \E g \in 1..MaxCalls, served \in SUBSET Blocks : RunBody(g, served)
    \/ \E g \in 1..MaxCalls : Resume(g)
    \/ LogArrives

SpecCaller == Init /\ [][NextCaller]_vars

(* ------------- the amount helpers on their own (pure functions) -------- *)

InitAmounts ==
    /\ \E ctx \in ProbeContexts : pool = [r \in Repositories |-> ctx]
    /\ entries = 0
    /\ cursor = [r \in Repositories |-> 0]
    /\ gens = <<>>
    /\ \E i \in {"a", "h"}, swap \in ProbeSwaps : probe = [self |-> i, swap |-> swap]
    /\ ret = NoResults

Call_amount0(is_reverse) ==
    /\ probe # NoProbe
    /\ ret' = IF is_reverse
              THEN [ret EXCEPT !.a0T = _amount0(probe.self, TRUE, probe.swap)]
              ELSE [ret EXCEPT !.a0F = _amount0(probe.self, FALSE, probe.swap)]
    /\ UNCHANGED <<pool, entries, cursor, gens, probe>>

Call_amount1(is_reverse) ==
    /\ probe # NoProbe
    /\ ret' = IF is_reverse
              THEN [ret EXCEPT !.a1T = _amount1(probe.self, TRUE, probe.swap)]
              ELSE [ret EXCEPT !.a1F = _amount1(probe.self, FALSE, probe.swap)]
    /\ UNCHANGED <<pool, entries, cursor, gens, probe>>

NextAmounts ==
    \/ \E rev \in BOOLEAN : Call_amount0(rev)
    \/ \E rev \in BOOLEAN : Call_amount1(rev)

SpecAmounts == InitAmounts /\ [][NextAmounts]_vars

(* ------------------------------ properties ----------------------------- *)

\* Generators whose body has run.
Ran == {g \in DOMAIN gens : gens[g].turn # 0}

\* Generators whose body ran to its yield.
Yielded == {g \in DOMAIN gens : gens[g].pc \in {"suspended", "exhausted"}}

Source(g) == RepositoryOf(gens[g].self)

\* The transaction hash, as emitted, of the k-th swap log of the pool.
HashOf(k) == Hex(Swap(k).transactionHash)

\* The swap logs first..last, in the order the filter matched them.
Logs(first, last) == [j \in 1..(last - first + 1) |-> first + j - 1]

\* The largest `seen` among the generators of set G, 0 when G is empty.
LastSeen(G) ==
    IF G = {} THEN 0
    ELSE CHOOSE n \in {gens[p].seen : p \in G} :
            \A p \in G : gens[p].seen <= n

\* The rows emitted by the generators of set G whose bodies ran at turns
\* 1..t, in the order the bodies ran.
RECURSIVE RowsUpTo(_, _)
RowsUpTo(G, t) ==
    IF t = 0 THEN <<>>
    ELSE RowsUpTo(G, t - 1)
         \o (LET at == {g \in G : gens[g].turn = t} IN
             IF at = {} THEN <<>> ELSE gens[CHOOSE g \in at : TRUE].value)

HashesOf(rows) == [j \in DOMAIN rows |-> rows[j][8]]

OnSource(r) == {g \in Ran : Source(g) = r}

OfInstance(i) == {g \in Ran : gens[g].self = i}

\* n / d, the fraction q = <<numerator, denominator>>, exactly.
IsQuotient(q, n, d) == q[2] > 0 /\ q[1] * d = n * q[2]

AllCalled == \A f \in DOMAIN ret : ret[f] # None

Dec0 == pool[RepositoryOf(probe.self)].token0_decimals
Dec1 == pool[RepositoryOf(probe.self)].token1_decimals

\* C1: for every swap and all pool decimals, _amount0(False, e) is exactly
\* e.amount0 / 10^d0 and _amount0(True, e) is e.amount1 / 10^d0, and
\* _amount1(False, e) is e.amount1 / 10^d1 and _amount1(True, e) is
\* e.amount0 / 10^d1.
AmountsScaled ==
    /\ ret.a0F # None =>
         IsQuotient(ret.a0F, probe.swap.args.amount0, Pow10(Dec0))
    /\ ret.a0T # None =>
         IsQuotient(ret.a0T, probe.swap.args.amount1, Pow10(Dec0))
    /\ ret.a1F # None =>
         IsQuotient(ret.a1F, probe.swap.args.amount1, Pow10(Dec1))
    /\ ret.a1T # None =>
         IsQuotient(ret.a1T, probe.swap.args.amount0, Pow10(Dec1))

\* The four calls were made on a swap with two different legs, a negative
\* one among them, for a pool whose tokens have different decimals.
AmountsScaledWitness ==
    /\ AllCalled
    /\ probe.swap.args.amount0 = -3
    /\ probe.swap.args.amount1 = 2
    /\ Dec0 = 2
    /\ Dec1 = 1
    /\ ret.a0F = <<-3, 100>>
    /\ ret.a1T = <<-3, 10>>

\* C2 as stated: for any swap and any pool decimals, equal or not, the
\* unordered pair {_amount0(False, e), _amount1(False, e)} equals the
\* unordered pair {_amount1(True, e), _amount0(True, e)}.
ReverseTogglePairs ==
    AllCalled => {ret.a0F, ret.a1F} = {ret.a1T, ret.a0T}

\* C2 as amended: the two unordered pairs are equal whenever the pool's two
\* tokens have the same decimals.
ReverseTogglePairsEqualDecimals ==
    (AllCalled /\ Dec0 = Dec1) => {ret.a0F, ret.a1F} = {ret.a1T, ret.a0T}

\* The four calls were made for a pool with equal, non-zero decimals on a
\* swap whose legs differ.
ReverseToggleWitness ==
    /\ AllCalled
    /\ Dec0 = Dec1
    /\ Dec0 > 0
    /\ probe.swap.args.amount0 # probe.swap.args.amount1
    /\ probe.swap.args.amount0 # 0
    /\ probe.swap.args.amount1 # 0

\* C3: no swap (identified by its transaction hash) emitted in the batch of
\* an observe() call is emitted again in the batch of a later call on the
\* same event source.
AtMostOnce ==
    \A g1 \in Ran, g2 \in Ran :
        (Source(g1) = Source(g2) /\ gens[g1].turn < gens[g2].turn) =>
            \A j1 \in DOMAIN gens[g1].value, j2 \in DOMAIN gens[g2].value :
                gens[g1].value[j1][8] # gens[g2].value[j2][8]

\* Two calls on the same source have each emitted a non-empty batch.
AtMostOnceWitness ==
    \E g1 \in Ran, g2 \in Ran :
        /\ Source(g1) = Source(g2)
        /\ gens[g1].turn < gens[g2].turn
        /\ gens[g1].value # <<>>
        /\ gens[g2].value # <<>>

\* C4: when the block lookup fails for any swap of the batch an observe()
\* call drained, the call fails as a whole and emits no row at all.
AllOrNothing ==
    \A g \in Ran :
        gens[g].lost # {} => (gens[g].pc = "raised" /\ gens[g].value = <<>>)

\* A call drained two swaps; the lookup of the first one's block worked and
\* the lookup of the second one's failed.
AllOrNothingWitness ==
    \E g \in Ran :
        /\ Len(gens[g].batch) >= 2
        /\ Swap(gens[g].batch[1]).blockNumber \notin gens[g].lost
        /\ Swap(gens[g].batch[2]).blockNumber \in gens[g].lost
        /\ gens[g].pc = "raised"

\* C5: when an observe() call failed after draining its batch and the caller
\* has retried, by an observe() call on the same instance made after the
\* failure that succeeded because the lookups work again, every swap of the
\* failed call's batch has been emitted by a call that ran after the failed
\* one.
NoEventDroppedOnError ==
    \A g \in Ran, retry \in Yielded :
        (/\ gens[g].pc = "raised"
         /\ gens[retry].self = gens[g].self
         /\ gens[retry].born >= gens[g].turn) =>
            \A j \in DOMAIN gens[g].batch :
                \E later \in Yielded :
                    /\ Source(later) = Source(g)
                    /\ gens[later].turn > gens[g].turn
                    /\ \E m \in DOMAIN gens[later].value :
                          gens[later].value[m][8] = HashOf(gens[g].batch[j])

\* The row observe() is to emit for swap log k, from the pool metadata c of
\* the service's repository, the call's arguments and the log's own fields.
IsRowOf(row, k, c, is_reverse, blockchain) ==
    /\ Len(row) = 9
    /\ row[1] = blockchain
    /\ row[2] = c.address
    /\ row[3] = Swap(k).args.recipient
    /\ row[4] = c.token0_symbol
    /\ row[5] = c.token1_symbol
    /\ IsQuotient(row[6],
                  IF is_reverse THEN Swap(k).args.amount1 ELSE Swap(k).args.amount0,
                  Pow10(c.token0_decimals))
    /\ IsQuotient(row[7],
                  IF is_reverse THEN Swap(k).args.amount0 ELSE Swap(k).args.amount1,
                  Pow10(c.token1_decimals))
    /\ row[8] = HashOf(k)
    /\ row[9] = DateTimeStr(BlockTimestamp(Swap(k).blockNumber))

\* C6: a successful observe() call emits exactly one row per swap the drain
\* returned, in the drain's order, and each row carries the caller's chain,
\* the pool address and token symbols, that swap's own recipient and
\* transaction hash, the amounts of that swap under the call's reverse flag,
\* and the timestamp of that swap's own block.
OneRowPerEvent ==
    \A g \in Yielded :
        /\ Len(gens[g].value) = Len(gens[g].batch)
        /\ \A j \in DOMAIN gens[g].batch :
              IsRowOf(gens[g].value[j], gens[g].batch[j], pool[Source(g)],
                      gens[g].is_reverse, gens[g].blockchain)

\* A call with the reverse flag set, for the chain "bsc", emitted two rows,
\* for two swaps with different recipients and different blocks.
OneRowPerEventWitness ==
    \E g \in Yielded :
        /\ gens[g].is_reverse
        /\ gens[g].blockchain = "bsc"
        /\ Len(gens[g].value) = 2
        /\ gens[g].value[1][3] # gens[g].value[2][3]
        /\ gens[g].value[1][9] # gens[g].value[2][9]

\* C7: each service instance owns its cursor: as long as no call fails, what
\* an observe() call of an instance returns is every log the source matched
\* since the previous call of that same instance, whatever the observe()
\* calls of other instances did in between.
OwnCursor ==
    \A g \in Ran :
        (\A p \in Ran : gens[p].pc # "raised") =>
        gens[g].batch =
            Logs(LastSeen({p \in OfInstance(gens[g].self) :
                              gens[p].turn < gens[g].turn}) + 1,
                 gens[g].seen)

\* C8: in error-free operation the source advances forward without gaps:
\* the rows emitted by the calls on a source up to and including a call are
\* exactly the logs visible at the source by that call, each once, in the
\* order the source matched them.
ForwardNoGaps ==
    \A g \in Ran :
        (\A p \in OnSource(Source(g)) :
            gens[p].turn <= gens[g].turn => gens[p].pc # "raised") =>
            HashesOf(RowsUpTo(OnSource(Source(g)), gens[g].turn))
                = [k \in 1..gens[g].seen |-> HashOf(k)]

\* Two error-free calls on a source have each emitted a non-empty batch.
ForwardNoGapsWitness ==
    \E g1 \in Yielded, g2 \in Yielded :
        /\ Source(g1) = Source(g2)
        /\ gens[g1].turn + 1 = gens[g2].turn
        /\ gens[g1].value # <<>>
        /\ gens[g2].value # <<>>
        /\ gens[g2].seen = MaxEvents
        /\ \A p \in Ran : gens[p].pc # "raised"

\* The calls of instance i up to turn t all succeeded, with reverse flag f.
Uniform(i, t, f) ==
    \A p \in OfInstance(i) :
        gens[p].turn <= t => (gens[p].pc # "raised" /\ gens[p].is_reverse = f)

\* C9: the WebSocket service and the HTTP service satisfy the same contract:
\* with the same pool metadata, the same logs visible at their sources and
\* the same reverse flag, both have emitted the same sequence of rows.
VariantsAgree ==
    \A g \in OfInstance("a"), k \in OfInstance("h"), f \in BOOLEAN :
        (/\ pool["UniSwapV3WSSRepository"] = pool["UniSwapV3HTTPRepository"]
         /\ gens[g].seen = gens[k].seen
         /\ Uniform("a", gens[g].turn, f)
         /\ Uniform("h", gens[k].turn, f)) =>
            RowsUpTo(OfInstance("a"), gens[g].turn)
                = RowsUpTo(OfInstance("h"), gens[k].turn)

\* Both services have emitted the rows of the same logs under the same
\* reverse flag, for the same pool.
VariantsAgreeWitness ==
    \E g \in OfInstance("a"), k \in OfInstance("h") :
        /\ pool["UniSwapV3WSSRepository"] = pool["UniSwapV3HTTPRepository"]
        /\ gens[g].seen = gens[k].seen
        /\ gens[g].is_reverse = gens[k].is_reverse
        /\ gens[g].pc = "suspended"
        /\ gens[k].pc = "suspended"
        /\ Len(gens[g].value) = MaxEvents
        /\ Len(gens[k].value) = MaxEvents

\* What the body of a generator on source r drains at its turn: every log
\* matched since the previous body ran on that source.
PendingAt(g) ==
    Logs(LastSeen({p \in OnSource(Source(g)) : gens[p].turn < gens[g].turn}) + 1,
         gens[g].seen)

\* C10: observe() is a lazy generator that yields exactly one batch: the
\* call consumes nothing; the first advance drains the source once and
\* yields a single list, empty when nothing is pending; the next advance
\* exhausts the generator without draining; so the pending logs go to the
\* generator advanced first, not to the one created first.
LazyOneBatch ==
    /\ [][Len(gens') > Len(gens) =>
            (cursor' = cursor /\ gens'[Len(gens')].pc = "created")]_vars
    /\ [](\A g \in DOMAIN gens :
            /\ gens[g].pc = "created" => (gens[g].turn = 0 /\ gens[g].value = <<>>)
            /\ g \in Ran => gens[g].batch = PendingAt(g)
            /\ g \in Yielded => Len(gens[g].value) = Len(gens[g].batch))
    /\ [][\A g \in DOMAIN gens :
            /\ (gens[g].pc = "suspended" /\ gens'[g].pc # "suspended") =>
                  (gens'[g].pc = "exhausted" /\ cursor' = cursor
                   /\ gens'[g].value = gens[g].value)
            /\ gens[g].pc \in {"exhausted", "raised"} => gens'[g] = gens[g]]_vars

\* Two generators on the same source: the one created second was advanced
\* first and got the pending logs, the one created first yielded the empty
\* list.
LazyOneBatchWitness ==
    \E g1 \in Yielded, g2 \in Yielded :
        /\ g1 < g2
        /\ Source(g1) = Source(g2)
        /\ gens[g2].turn < gens[g1].turn
        /\ Len(gens[g2].value) = MaxEvents
        /\ gens[g1].value = <<>>
        /\ gens[g2].pc = "exhausted"

====
